---- MODULE Spec2Model ----
(***************************************************************************)
(* glyph-brush, src/section.rs: the Section / Text value types, their      *)
(* fluent builders, the derived equality, the full Section hash and the    *)
(* three decomposed hash streams (geometry, text-without-extra, extra).    *)
(*                                                                         *)
(* An f32 is modelled by its bit pattern, named by a string: "0.0" and     *)
(* "-0.0" are the two zeros, "NaN" and "-NaN" two NaN bit patterns, "inf"  *)
(* is f32::INFINITY.  A Hasher is modelled by the sequence of writes it    *)
(* has been fed: two hashes agree exactly when the write streams agree.    *)
(***************************************************************************)
EXTENDS Integers, Sequences, FiniteSets, TLC

\* Largest number of runs a modelled Section holds.
MaxRuns == 2

(***************************************************************************)
(* f32 values and the two equalities the code uses on them.                *)
(***************************************************************************)
IsNaN(f) == f \in {"NaN", "-NaN"}

IsZero(f) == f \in {"0.0", "-0.0"}

\* IEEE-754 `==` on f32, which derive(PartialEq) uses for every f32 field:
\* NaN equals nothing, the two zeros are equal.
F32Eq(a, b) == /\ ~IsNaN(a)
               /\ ~IsNaN(b)
               /\ (a = b \/ (IsZero(a) /\ IsZero(b)))

\* The bits OrderedFloat<f32> feeds a hasher: every NaN as one canonical
\* NaN, both zeros as one canonical zero, any other value as its own bits.
OrderedFloatBits(f) == IF IsNaN(f) THEN "NaN"
                       ELSE IF IsZero(f) THEN "0.0"
                       ELSE f

(***************************************************************************)
(* Hasher writes.  Every write is one token [k, s, n].                     *)
(***************************************************************************)
\* Hasher::write_usize, also the length prefix of a slice or array.
WriteUsize(state, n) == Append(state, [k |-> "usize", s |-> "", n |-> n])

\* Hash for str: the bytes followed by the 0xff terminator, one token.
WriteStr(state, str) == Append(state, [k |-> "str", s |-> str, n |-> 0])

\* Hash for OrderedFloat<f32>: one u64 write of the canonical bits.
OrderedFloatHash(state, f) ==
    Append(state, [k |-> "u64", s |-> OrderedFloatBits(f), n |-> 0])

\* Hash for [OrderedFloat<f32>] and [OrderedFloat<f32>; N]: the length
\* prefix, then every element in order.
RECURSIVE HashFloatsFrom(_, _, _)
HashFloatsFrom(state, floats, i) ==
    IF i > Len(floats) THEN state
    ELSE HashFloatsFrom(OrderedFloatHash(state, floats[i]), floats, i + 1)

HashOrdFloats(state, floats) ==
    HashFloatsFrom(WriteUsize(state, Len(floats)), floats, 1)

\* layout.hash(state): Layout<BuiltInLineBreaker> derives Hash and is an
\* opaque value here.
LayoutHash(state, layout) ==
    Append(state, [k |-> "layout", s |-> layout, n |-> 0])

\* extra.hash(state) for the payload X: Hash.  The payload is the default
\* Extra { color, outline_color, z }; its f32 components take part in
\* hashing through OrderedFloat, one write of the canonical bits per
\* component, in field order.
ExtraComponents(extra) == extra.color \o extra.outline_color \o <<extra.z>>

RECURSIVE HashExtraComponentsFrom(_, _, _)
HashExtraComponentsFrom(state, comps, i) ==
    IF i > Len(comps) THEN state
    ELSE HashExtraComponentsFrom(
             Append(state, [k |-> "extra",
                            s |-> OrderedFloatBits(comps[i]), n |-> 0]),
             comps, i + 1)

ExtraHash(state, extra) ==
    HashExtraComponentsFrom(state, ExtraComponents(extra), 1)

\* FontId(usize) derives Hash.
FontIdHash(state, font_id) == WriteUsize(state, font_id)

(***************************************************************************)
(* Text: one run.                                                          *)
(***************************************************************************)
LayoutDefault == "Wrap"

\* Extra::default(): opaque black fill, zero outline, zero depth.
ExtraDefault == [color |-> <<"0.0", "0.0", "0.0", "1.0">>,
                 outline_color |-> <<"0.0", "0.0", "0.0", "0.0">>,
                 z |-> "0.0"]

\* impl Default for Text
Text_default == [text |-> "", scale |-> <<"16.0", "16.0">>,
                 font_id |-> 0, extra |-> ExtraDefault]

Text_with_text(self, text) ==
    [text |-> text, scale |-> self.scale,
     font_id |-> self.font_id, extra |-> self.extra]

Text_with_scale(self, scale) == [self EXCEPT !.scale = scale]

Text_with_font_id(self, font_id) == [self EXCEPT !.font_id = font_id]

Text_with_extra(self, extra) ==
    [text |-> self.text, scale |-> self.scale,
     font_id |-> self.font_id, extra |-> extra]

Text_new(text) == Text_with_text(Text_default, text)

\* impl Text<Extra>: each sets one component of the payload.
Text_with_color(self, color) == [self EXCEPT !.extra.color = color]

Text_with_outline_color(self, color) ==
    [self EXCEPT !.extra.outline_color = color]

Text_with_z(self, z) == [self EXCEPT !.extra.z = z]

\* derive(PartialEq) for PxScale { x, y }
PxScaleEq(a, b) == F32Eq(a[1], b[1]) /\ F32Eq(a[2], b[2])

\* derive(PartialEq) for Text
TextEq(a, b) == /\ a.text = b.text
                /\ PxScaleEq(a.scale, b.scale)
                /\ a.font_id = b.font_id
                /\ a.extra = b.extra

(***************************************************************************)
(* Section.                                                                *)
(***************************************************************************)
\* Variant: a zero-sized box in place of the unbounded one.
Section_new_ZeroBounds ==
    [screen_position |-> <<"0.0", "0.0">>, bounds |-> <<"0.0", "0.0">>,
     layout |-> LayoutDefault, text |-> <<>>]
Section_new ==
    [screen_position |-> <<"0.0", "0.0">>, bounds |-> <<"inf", "inf">>,
     layout |-> LayoutDefault, text |-> <<>>]

Section_with_screen_position(self, position) ==
    [self EXCEPT !.screen_position = position]

\* Variant: the position is reset along with the bounds.
Section_with_bounds_ResetsPosition(self, bounds) ==
    [self EXCEPT !.bounds = bounds, !.screen_position = <<"0.0", "0.0">>]
Section_with_bounds(self, bounds) == [self EXCEPT !.bounds = bounds]

Section_with_layout(self, layout) == [self EXCEPT !.layout = layout]

\* Variant: the run is put in front.
Section_add_text_Front(self, text) ==
    [self EXCEPT !.text = <<text>> \o self.text]
Section_add_text(self, text) == [self EXCEPT !.text = Append(self.text, text)]

Section_with_text(self, text) ==
    [text |-> text, screen_position |-> self.screen_position,
     bounds |-> self.bounds, layout |-> self.layout]

\* derive(Clone) for Section
Section_clone(self) == self

\* derive(PartialEq) for Section: field by field, f32 fields by `==`.
\* Variant: f32 fields compared by bit pattern.
SectionEq_Bitwise(a, b) == a = b
SectionEq(a, b) ==
    /\ F32Eq(a.screen_position[1], b.screen_position[1])
    /\ F32Eq(a.screen_position[2], b.screen_position[2])
    /\ F32Eq(a.bounds[1], b.bounds[1])
    /\ F32Eq(a.bounds[2], b.bounds[2])
    /\ a.layout = b.layout
    /\ Len(a.text) = Len(b.text)
    /\ \A i \in 1..Len(a.text) : TextEq(a.text[i], b.text[i])

(***************************************************************************)
(* Hashing.                                                                *)
(***************************************************************************)
\* fn hash_section_text: per run the tuple (text, font_id, extra, [x, y]).
RECURSIVE HashSectionTextFrom(_, _, _)
HashSectionTextFrom(state, text, i) ==
    IF i > Len(text) THEN state
    ELSE LET t  == text[i]
             s1 == WriteStr(state, t.text)
             s2 == FontIdHash(s1, t.font_id)
             s3 == ExtraHash(s2, t.extra)
             s4 == HashOrdFloats(s3, <<t.scale[1], t.scale[2]>>)
         IN  HashSectionTextFrom(s4, text, i + 1)

hash_section_text(state, text) == HashSectionTextFrom(state, text, 1)

\* impl Hash for Section: layout, then the runs, then the four floats.
\* Variant: the layout is not fed.
SectionHash_NoLayout(self, state) ==
    HashOrdFloats(hash_section_text(state, self.text),
                  <<self.screen_position[1], self.screen_position[2],
                    self.bounds[1], self.bounds[2]>>)
\* Variant: the four floats are fed before the runs.
SectionHash_GeometryFirst(self, state) ==
    hash_section_text(
        HashOrdFloats(LayoutHash(state, self.layout),
                      <<self.screen_position[1], self.screen_position[2],
                        self.bounds[1], self.bounds[2]>>),
        self.text)
SectionHash(self, state) ==
    LET ord_floats == <<self.screen_position[1], self.screen_position[2],
                        self.bounds[1], self.bounds[2]>>
        s1 == LayoutHash(state, self.layout)
        s2 == hash_section_text(s1, self.text)
    IN  HashOrdFloats(s2, ord_floats)

\* Section::to_hashable_parts: the four floats and the runs; no layout.
to_hashable_parts(self) ==
    [geometry |-> <<self.screen_position[1], self.screen_position[2],
                    self.bounds[1], self.bounds[2]>>,
     text |-> self.text]

\* HashableSectionParts::hash_geometry
\* Variant: the bounds are not fed.
hash_geometry_PositionOnly(self, state) ==
    HashOrdFloats(state, <<self.geometry[1], self.geometry[2]>>)
hash_geometry(self, state) == HashOrdFloats(state, self.geometry)

\* HashableSectionParts::hash_text_no_extra: per run (text, font_id, [x, y]).
RECURSIVE HashTextNoExtraFrom(_, _, _)
HashTextNoExtraFrom(state, text, i) ==
    IF i > Len(text) THEN state
    ELSE LET t  == text[i]
             s1 == WriteStr(state, t.text)
             s2 == FontIdHash(s1, t.font_id)
             s3 == HashOrdFloats(s2, <<t.scale[1], t.scale[2]>>)
         IN  HashTextNoExtraFrom(s3, text, i + 1)

\* Variant: the extra is fed along with the text fields.
hash_text_no_extra_WithExtra(self, state) ==
    hash_section_text(state, self.text)
\* Variant: only the text content of every run is fed.
RECURSIVE HashStrOnlyFrom(_, _, _)
HashStrOnlyFrom(state, text, i) ==
    IF i > Len(text) THEN state
    ELSE HashStrOnlyFrom(WriteStr(state, text[i].text), text, i + 1)
hash_text_no_extra_StrOnly(self, state) ==
    HashStrOnlyFrom(state, self.text, 1)
hash_text_no_extra(self, state) == HashTextNoExtraFrom(state, self.text, 1)

\* HashableSectionParts::hash_extra: every run's extra, in order.
RECURSIVE HashExtraFrom(_, _, _)
HashExtraFrom(state, text, i) ==
    IF i > Len(text) THEN state
    ELSE HashExtraFrom(ExtraHash(state, text[i].extra), text, i + 1)

hash_extra(self, state) == HashExtraFrom(state, self.text, 1)

(***************************************************************************)
(* Owned counterpart.                                                      *)
(***************************************************************************)
\* OwnedText::from(&Text): the text copied into a String, the rest copied.
OwnedText_from(t) ==
    [text |-> [String |-> t.text], scale |-> t.scale,
     font_id |-> t.font_id, extra |-> t.extra]

\* Section::to_owned
\* Variant: the runs are collected in reverse.
to_owned_Reversed(self) ==
    [screen_position |-> self.screen_position,
     bounds |-> self.bounds,
     layout |-> self.layout,
     text |-> [i \in 1..Len(self.text) |->
                  OwnedText_from(self.text[Len(self.text) + 1 - i])]]
to_owned(self) ==
    [screen_position |-> self.screen_position,
     bounds |-> self.bounds,
     layout |-> self.layout,
     text |-> [i \in 1..Len(self.text) |-> OwnedText_from(self.text[i])]]

\* The owned value viewed as a Section again: every String lent as a &str.
OwnedText_borrow(o) ==
    [text |-> o.text.String, scale |-> o.scale,
     font_id |-> o.font_id, extra |-> o.extra]

OwnedSection_to_borrowed(o) ==
    [screen_position |-> o.screen_position,
     bounds |-> o.bounds,
     layout |-> o.layout,
     text |-> [i \in 1..Len(o.text) |-> OwnedText_borrow(o.text[i])]]

(***************************************************************************)
(* Inputs.                                                                 *)
(***************************************************************************)
Positions == {<<"0.0", "0.0">>, <<"-0.0", "0.0">>,
              <<"NaN", "1.0">>, <<"-NaN", "1.0">>}

BoundsInputs == {<<"inf", "inf">>, <<"1.0", "2.0">>, <<"2.0", "1.0">>}

Layouts == {LayoutDefault, "SingleLine"}

Strs == {"A", "B"}

Scales == {<<"16.0", "16.0">>, <<"NaN", "16.0">>, <<"-NaN", "16.0">>}

FontIds == {0, 1}

Red == <<"1.0", "0.0", "0.0", "1.0">>

Green == <<"0.0", "1.0", "0.0", "1.0">>

Colors == {ExtraDefault.color, Red}

OutlineColors == {ExtraDefault.outline_color, Green}

Depths == {ExtraDefault.z, "-0.0", "0.5", "NaN", "-NaN"}

Extras == [color : Colors, outline_color : OutlineColors, z : Depths]

\* The default payload with every depth: with_z over Depths.
DepthExtras == {[ExtraDefault EXCEPT !.z = z] : z \in Depths}

\* Runs given to add_text and with_text: Text::new("A") and the runs that
\* differ from it in exactly one field.
RunA == Text_new("A")

RunInputs ==
    {RunA,
     Text_new("B"),
     Text_with_font_id(RunA, 1),
     Text_with_color(RunA, Red),
     Text_with_scale(RunA, <<"NaN", "16.0">>),
     Text_with_scale(RunA, <<"-NaN", "16.0">>)}

TextLists == {l \in {<<>>, <<RunA>>, <<Text_new("B"), RunA>>} :
                 Len(l) <= MaxRuns}

\* Hasher states a hashing call starts from: fresh, or already written to.
Seeds == {<<>>, WriteUsize(<<>>, 7)}

RECURSIVE SeqsUpTo(_, _)
SeqsUpTo(S, n) ==
    IF n = 0 THEN {<<>>}
    ELSE LET shorter == SeqsUpTo(S, n - 1)
         IN  shorter \cup {Append(q, x) : q \in shorter, x \in S}

Sections == [screen_position : Positions, bounds : BoundsInputs,
             layout : Layouts, text : SeqsUpTo(RunInputs, MaxRuns)]

TextValues == [text : Strs \cup {""}, scale : Scales,
               font_id : FontIds, extra : Extras]

(***************************************************************************)
(* State.                                                                  *)
(***************************************************************************)
VARIABLES
    section,  \* the Section value the calls act on
    run,      \* the Text value the Text builders act on
    op,       \* the method called last
    state0,   \* the Hasher handed to the last hashing call, before the call
    state,    \* that Hasher after the call
    owned,    \* <<the OwnedSection the last to_owned returned>>, else <<>>
    given,    \* the list given to the latest Section::with_text, else <<>>
    added     \* the arguments of the add_text calls made since

vars == <<section, run, op, state0, state, owned, given, added>>

NoHash == state0' = <<>> /\ state' = <<>>

Init ==
    /\ section = Section_new
    /\ run = Text_default
    /\ op = "new"
    /\ state0 = <<>>
    /\ state = <<>>
    /\ owned = <<>>
    /\ given = <<>>
    /\ added = <<>>

WithScreenPosition(position) ==
    /\ section' = Section_with_screen_position(section, position)
    /\ op' = "with_screen_position"
    /\ NoHash
    /\ owned' = <<>>
    /\ UNCHANGED <<run, given, added>>

WithBounds(bounds) ==
    /\ section' = Section_with_bounds(section, bounds)
    /\ op' = "with_bounds"
    /\ NoHash
    /\ owned' = <<>>
    /\ UNCHANGED <<run, given, added>>

WithLayout(layout) ==
    /\ section' = Section_with_layout(section, layout)
    /\ op' = "with_layout"
    /\ NoHash
    /\ owned' = <<>>
    /\ UNCHANGED <<run, given, added>>

AddText(text) ==
    /\ Len(section.text) < MaxRuns
    /\ section' = Section_add_text(section, text)
    /\ op' = "add_text"
    /\ added' = Append(added, text)
    /\ NoHash
    /\ owned' = <<>>
    /\ UNCHANGED <<run, given>>

WithText(text) ==
    /\ section' = Section_with_text(section, text)
    /\ op' = "with_text"
    /\ given' = text
    /\ added' = <<>>
    /\ NoHash
    /\ owned' = <<>>
    /\ UNCHANGED run

Hash(seed) ==
    /\ state0' = seed
    /\ state' = SectionHash(section, seed)
    /\ op' = "hash"
    /\ owned' = <<>>
    /\ UNCHANGED <<section, run, given, added>>

HashGeometry(seed) ==
    /\ state0' = seed
    /\ state' = hash_geometry(to_hashable_parts(section), seed)
    /\ op' = "hash_geometry"
    /\ owned' = <<>>
    /\ UNCHANGED <<section, run, given, added>>

HashTextNoExtra(seed) ==
    /\ state0' = seed
    /\ state' = hash_text_no_extra(to_hashable_parts(section), seed)
    /\ op' = "hash_text_no_extra"
    /\ owned' = <<>>
    /\ UNCHANGED <<section, run, given, added>>

HashExtra(seed) ==
    /\ state0' = seed
    /\ state' = hash_extra(to_hashable_parts(section), seed)
    /\ op' = "hash_extra"
    /\ owned' = <<>>
    /\ UNCHANGED <<section, run, given, added>>

ToOwned ==
    /\ owned' = <<to_owned(section)>>
    /\ op' = "to_owned"
    /\ NoHash
    /\ UNCHANGED <<section, run, given, added>>

TextWithText(text) ==
    /\ run' = Text_with_text(run, text)
    /\ op' = "Text::with_text"
    /\ UNCHANGED <<section, state0, state, owned, given, added>>

TextWithScale(scale) ==
    /\ run' = Text_with_scale(run, scale)
    /\ op' = "Text::with_scale"
    /\ UNCHANGED <<section, state0, state, owned, given, added>>

TextWithFontId(font_id) ==
    /\ run' = Text_with_font_id(run, font_id)
    /\ op' = "Text::with_font_id"
    /\ UNCHANGED <<section, state0, state, owned, given, added>>

TextWithExtra(extra) ==
    /\ run' = Text_with_extra(run, extra)
    /\ op' = "Text::with_extra"
    /\ UNCHANGED <<section, state0, state, owned, given, added>>

TextWithColor(color) ==
    /\ run' = Text_with_color(run, color)
    /\ op' = "Text::with_color"
    /\ UNCHANGED <<section, state0, state, owned, given, added>>

TextWithOutlineColor(color) ==
    /\ run' = Text_with_outline_color(run, color)
    /\ op' = "Text::with_outline_color"
    /\ UNCHANGED <<section, state0, state, owned, given, added>>

TextWithZ(z) ==
    /\ run' = Text_with_z(run, z)
    /\ op' = "Text::with_z"
    /\ UNCHANGED <<section, state0, state, owned, given, added>>

SectionSetters ==
    \/ \E position \in Positions : WithScreenPosition(position)
    \/ \E bounds \in BoundsInputs : WithBounds(bounds)
    \/ \E layout \in Layouts : WithLayout(layout)
    \/ \E text \in RunInputs : AddText(text)
    \/ \E text \in TextLists : WithText(text)

Hashing ==
    \/ \E seed \in Seeds : Hash(seed)
    \/ \E seed \in Seeds : HashGeometry(seed)
    \/ \E seed \in Seeds : HashTextNoExtra(seed)
    \/ \E seed \in Seeds : HashExtra(seed)

\* A Section built by a chain of builder calls from Section::new(), hashed
\* and converted along the way.
Next == SectionSetters \/ Hashing \/ ToOwned

Spec == Init /\ [][Next]_vars

\* Every setter applied once to an input drawn from the bounded sets.
InitSetters ==
    /\ \/ section \in Sections /\ run = Text_default
       \/ section = Section_new /\ run \in TextValues
    /\ op = "input"
    /\ state0 = <<>>
    /\ state = <<>>
    /\ owned = <<>>
    /\ given = section.text
    /\ added = <<>>

NextSetters ==
    \/ \E position \in Positions :
          op = "input" /\ WithScreenPosition(position)
    \/ \E bounds \in BoundsInputs : op = "input" /\ WithBounds(bounds)
    \/ \E layout \in Layouts : op = "input" /\ WithLayout(layout)
    \/ \E text \in RunInputs : op = "input" /\ AddText(text)
    \/ \E text \in TextLists : op = "input" /\ WithText(text)
    \/ \E text \in Strs : op = "input" /\ TextWithText(text)
    \/ \E scale \in Scales : op = "input" /\ TextWithScale(scale)
    \/ \E font_id \in FontIds : op = "input" /\ TextWithFontId(font_id)
    \/ \E extra \in Extras : op = "input" /\ TextWithExtra(extra)
    \/ \E color \in Colors : op = "input" /\ TextWithColor(color)
    \/ \E color \in OutlineColors :
          op = "input" /\ TextWithOutlineColor(color)
    \/ \E z \in Depths : op = "input" /\ TextWithZ(z)

SpecSetters == InitSetters /\ [][NextSetters]_vars

(***************************************************************************)
(* Properties.                                                             *)
(***************************************************************************)
Parts(s) == to_hashable_parts(s)

\* Some f32 of the Section (position, bounds, a run's scale) is a NaN.
HasNaN(s) ==
    \/ \E i \in 1..2 : IsNaN(s.screen_position[i]) \/ IsNaN(s.bounds[i])
    \/ \E i \in 1..Len(s.text) :
          IsNaN(s.text[i].scale[1]) \/ IsNaN(s.text[i].scale[2])

\* Equality of OrderedFloat values: NaN equals NaN, the zeros are equal.
OrderedEq(a, b) == \/ IsNaN(a) /\ IsNaN(b)
                   \/ IsZero(a) /\ IsZero(b)
                   \/ a = b

\* The payloads one call of with_color, with_outline_color or with_z makes
\* of the run t.
SetterExtras(t) ==
    {Text_with_color(t, c).extra : c \in Colors}
        \cup {Text_with_outline_color(t, c).extra : c \in OutlineColors}
        \cup {Text_with_z(t, z).extra : z \in Depths}

\* The Sections that differ from s in the extra of exactly one run.
ExtraVariants(s) ==
    UNION {{[s EXCEPT !.text[i].extra = x] : x \in SetterExtras(s.text[i])} :
              i \in 1..Len(s.text)} \ {s}

\* Two payloads whose components are all equal as OrderedFloat values.
ExtraOrderedEq(x, y) ==
    /\ \A c \in 1..4 : /\ OrderedEq(x.color[c], y.color[c])
                        /\ OrderedEq(x.outline_color[c], y.outline_color[c])
    /\ OrderedEq(x.z, y.z)

\* The Sections that differ from s in screen_position or bounds only.
GeometryVariants(s) ==
    {[s EXCEPT !.screen_position = p, !.bounds = b] :
        p \in Positions, b \in BoundsInputs} \ {s}

\* The Sections that differ from s in layout only.
LayoutVariants(s) == {[s EXCEPT !.layout = l] : l \in Layouts} \ {s}

\* s with the runs at i and j swapped.
SwapRuns(s, i, j) ==
    [s EXCEPT !.text = [s.text EXCEPT ![i] = s.text[j], ![j] = s.text[i]]]

\* C1 as stated: two Sections with identical position, bounds, layout and
\* runs have the same full hash and compare equal with ==, NaN included.
C1_IdenticalHashAndEqual ==
    op = "hash" =>
        LET B == Section_clone(section)
        IN  /\ SectionHash(B, state0) = state
            /\ SectionEq(section, B)

\* C1, amended: two identical Sections have the same full hash; they
\* compare equal with == exactly when none of their f32 fields is a NaN.
C1_IdenticalHashAndEqualUnlessNaN ==
    op = "hash" =>
        LET B == Section_clone(section)
        IN  /\ SectionHash(B, state0) = state
            /\ SectionEq(section, B) <=> ~HasNaN(section)

C1_Witness ==
    /\ op = "hash"
    /\ state0 # <<>>
    /\ Len(section.text) = 2
    /\ ~HasNaN(section)
    /\ section.bounds = <<"inf", "inf">>
    /\ section.screen_position = <<"-0.0", "0.0">>

\* C2 as stated: for Sections that differ only in one run's extra,
\* hash_geometry and hash_text_no_extra feed the same stream and hash_extra
\* a different one.
C2_ExtraChangeOnlyInExtraStream ==
    \A B \in ExtraVariants(section) :
        /\ op = "hash_geometry" =>
              hash_geometry(Parts(B), state0) = state
        /\ op = "hash_text_no_extra" =>
              hash_text_no_extra(Parts(B), state0) = state
        /\ op = "hash_extra" =>
              hash_extra(Parts(B), state0) # state

\* C2, amended: the geometry and text-without-extra streams are the same,
\* and the extra stream differs exactly when some component of the two
\* payloads differs as an OrderedFloat (two NaNs, or 0.0 and -0.0, feed
\* the same bits).  In the second conjunct the pair A, B is the hashed
\* Section with the extra of one run replaced by two payloads of different
\* depth, so that A too holds NaN and -0.0 payloads.
C2_ExtraStreamDiffersUpToCanonicalFloats ==
    /\ \A B \in ExtraVariants(section) :
          /\ op = "hash_geometry" =>
                hash_geometry(Parts(B), state0) = state
          /\ op = "hash_text_no_extra" =>
                hash_text_no_extra(Parts(B), state0) = state
          /\ op = "hash_extra" =>
                (hash_extra(Parts(B), state0) # state
                 <=> \E i \in 1..Len(section.text) :
                        ~ExtraOrderedEq(B.text[i].extra,
                                        section.text[i].extra))
    /\ op = "hash_extra" =>
          \A i \in 1..Len(section.text) :
              LET fed == {[extra |-> x,
                           stream |-> hash_extra(
                               Parts([section EXCEPT !.text[i].extra = x]),
                               state0)] : x \in DepthExtras}
              IN  \A a \in fed, b \in fed :
                      a.extra # b.extra =>
                        (a.stream # b.stream
                         <=> ~ExtraOrderedEq(a.extra, b.extra))

C2_Witness ==
    /\ op = "hash_extra"
    /\ state0 # <<>>
    /\ Len(section.text) = 2
    /\ section.text[2].extra.color = Red
    /\ section.text[1].extra = ExtraDefault

\* C3 as stated: for Sections that differ only in screen_position or
\* bounds, hash_text_no_extra and hash_extra feed the same stream and
\* hash_geometry a different one.
C3_GeometryChangeChangesGeometryStream ==
    \A B \in GeometryVariants(section) :
        /\ op = "hash_text_no_extra" =>
              hash_text_no_extra(Parts(B), state0) = state
        /\ op = "hash_extra" =>
              hash_extra(Parts(B), state0) = state
        /\ op = "hash_geometry" =>
              hash_geometry(Parts(B), state0) # state

\* C3, amended: the text and extra streams are the same, and the geometry
\* stream differs exactly when some position or bounds component differs
\* as an OrderedFloat (two NaNs, or 0.0 and -0.0, feed the same bits).
C3_GeometryStreamDiffersUpToCanonicalFloats ==
    \A B \in GeometryVariants(section) :
        /\ op = "hash_text_no_extra" =>
              hash_text_no_extra(Parts(B), state0) = state
        /\ op = "hash_extra" =>
              hash_extra(Parts(B), state0) = state
        /\ op = "hash_geometry" =>
              (hash_geometry(Parts(B), state0) # state
               <=> \E i \in 1..2 :
                      \/ ~OrderedEq(B.screen_position[i],
                                    section.screen_position[i])
                      \/ ~OrderedEq(B.bounds[i], section.bounds[i]))

C3_Witness ==
    /\ op = "hash_geometry"
    /\ section.bounds = <<"1.0", "2.0">>
    /\ section.screen_position = <<"NaN", "1.0">>
    /\ Len(section.text) = 1

\* C4 as stated: swapping two runs of a Section, where that changes the
\* run order, changes the stream hash_text_no_extra feeds.
C4_SwapChangesTextStream ==
    op = "hash_text_no_extra" =>
        \A i, j \in 1..Len(section.text) :
            section.text[i] # section.text[j] =>
                hash_text_no_extra(Parts(SwapRuns(section, i, j)), state0)
                    # state

\* C4, amended: swapping two runs changes the stream hash_text_no_extra
\* feeds exactly when the two runs differ in text, in font_id or, as
\* OrderedFloats, in scale; runs that differ only in extra, or only in the
\* bit pattern of a NaN scale, swap without changing it.
C4_SwapChangesTextStreamIffTextFieldsDiffer ==
    op = "hash_text_no_extra" =>
        \A i, j \in 1..Len(section.text) :
            LET a == section.text[i]
                b == section.text[j]
            IN  hash_text_no_extra(Parts(SwapRuns(section, i, j)), state0)
                    # state
                <=> \/ a.text # b.text
                    \/ a.font_id # b.font_id
                    \/ ~OrderedEq(a.scale[1], b.scale[1])
                    \/ ~OrderedEq(a.scale[2], b.scale[2])

C4_Witness ==
    /\ op = "hash_text_no_extra"
    /\ Len(section.text) = 2
    /\ section.text[1].font_id # section.text[2].font_id
    /\ section.text[1].text = section.text[2].text

\* C5 as stated: the full hash feeds the layout, then the geometry stream,
\* then every run's text fields and extra.
C5_FullHashLayoutGeometryRuns ==
    op = "hash" =>
        state = hash_section_text(
                    hash_geometry(Parts(section),
                                  LayoutHash(state0, section.layout)),
                    section.text)

\* The tokens of stream q whose kind is (keep = TRUE) or is not "extra".
ExtraTokens(q, keep) == SelectSeq(q, LAMBDA t : (t.k = "extra") = keep)

\* C5, amended: the full hash feeds the layout, then every run's text
\* fields interleaved with its extra, then the geometry stream; the runs'
\* part holds the text-without-extra stream and the extra stream.
C5_FullHashLayoutRunsGeometry ==
    op = "hash" =>
        LET afterLayout == LayoutHash(state0, section.layout)
            afterRuns   == hash_section_text(afterLayout, section.text)
            runs        == SubSeq(afterRuns, Len(afterLayout) + 1,
                                  Len(afterRuns))
        IN  /\ state = hash_geometry(Parts(section), afterRuns)
            /\ SubSeq(state, 1, Len(afterRuns)) = afterRuns
            /\ ExtraTokens(runs, FALSE)
                   = hash_text_no_extra(Parts(section), <<>>)
            /\ ExtraTokens(runs, TRUE) = hash_extra(Parts(section), <<>>)

C5_Witness ==
    /\ op = "hash"
    /\ state0 # <<>>
    /\ Len(section.text) = 2
    /\ section.text[1] # section.text[2]
    /\ section.bounds # <<"inf", "inf">>

\* C6 as stated: to_owned copies position, bounds and layout, makes one
\* owned run per run in order, and the owned value viewed as a Section
\* again equals (==) the original and feeds the same three streams.
C6_RoundTripEqual ==
    op = "to_owned" =>
        LET o == owned[1]
            b == OwnedSection_to_borrowed(o)
        IN  /\ SectionEq(b, section)
            /\ \A seed \in Seeds :
                  /\ hash_geometry(Parts(b), seed)
                         = hash_geometry(Parts(section), seed)
                  /\ hash_text_no_extra(Parts(b), seed)
                         = hash_text_no_extra(Parts(section), seed)
                  /\ hash_extra(Parts(b), seed)
                         = hash_extra(Parts(section), seed)
            /\ o.screen_position = section.screen_position
            /\ o.bounds = section.bounds
            /\ o.layout = section.layout
            /\ Len(o.text) = Len(section.text)
            /\ \A i \in 1..Len(section.text) :
                  o.text[i] = OwnedText_from(section.text[i])

\* C6, amended: the owned value viewed as a Section again has the fields of
\* the original, so it compares equal (==) to it exactly when the original
\* holds no NaN, and it feeds the same three streams; to_owned copies
\* position, bounds and layout and makes one owned run per run, in order.
C6_RoundTripIdentical ==
    op = "to_owned" =>
        LET o == owned[1]
            b == OwnedSection_to_borrowed(o)
        IN  /\ b = section
            /\ SectionEq(b, section) <=> ~HasNaN(section)
            /\ \A seed \in Seeds :
                  /\ hash_geometry(Parts(b), seed)
                         = hash_geometry(Parts(section), seed)
                  /\ hash_text_no_extra(Parts(b), seed)
                         = hash_text_no_extra(Parts(section), seed)
                  /\ hash_extra(Parts(b), seed)
                         = hash_extra(Parts(section), seed)
            /\ o.screen_position = section.screen_position
            /\ o.bounds = section.bounds
            /\ o.layout = section.layout
            /\ Len(o.text) = Len(section.text)
            /\ \A i \in 1..Len(section.text) :
                  o.text[i] = OwnedText_from(section.text[i])

C6_Witness ==
    /\ op = "to_owned"
    /\ Len(section.text) = 2
    /\ section.text[1].text # section.text[2].text
    /\ ~HasNaN(section)
    /\ section.layout # LayoutDefault

\* C7: every setter changes only its own field. Section: with_screen_position,
\* with_bounds and with_layout keep the other two and the runs; add_text
\* keeps position, bounds, layout and the runs already there; with_text
\* keeps position, bounds and layout and replaces the runs. Text: with_text,
\* with_scale, with_font_id and with_extra keep the other three fields;
\* with_color, with_outline_color and with_z keep text, scale, font_id and
\* the other two components of the payload.
C7_SettersFrame ==
    [][/\ op' = "with_screen_position" =>
             /\ section'.bounds = section.bounds
             /\ section'.layout = section.layout
             /\ section'.text = section.text
       /\ op' = "with_bounds" =>
             /\ section'.screen_position = section.screen_position
             /\ section'.layout = section.layout
             /\ section'.text = section.text
       /\ op' = "with_layout" =>
             /\ section'.screen_position = section.screen_position
             /\ section'.bounds = section.bounds
             /\ section'.text = section.text
       /\ op' = "add_text" =>
             /\ section'.screen_position = section.screen_position
             /\ section'.bounds = section.bounds
             /\ section'.layout = section.layout
             /\ Len(section'.text) = Len(section.text) + 1
             /\ SubSeq(section'.text, 1, Len(section.text)) = section.text
       /\ op' = "with_text" =>
             /\ section'.screen_position = section.screen_position
             /\ section'.bounds = section.bounds
             /\ section'.layout = section.layout
             /\ section'.text = given'
       /\ op' = "Text::with_text" =>
             /\ run'.scale = run.scale
             /\ run'.font_id = run.font_id
             /\ run'.extra = run.extra
       /\ op' = "Text::with_scale" =>
             /\ run'.text = run.text
             /\ run'.font_id = run.font_id
             /\ run'.extra = run.extra
       /\ op' = "Text::with_font_id" =>
             /\ run'.text = run.text
             /\ run'.scale = run.scale
             /\ run'.extra = run.extra
       /\ op' = "Text::with_extra" =>
             /\ run'.text = run.text
             /\ run'.scale = run.scale
             /\ run'.font_id = run.font_id
       /\ op' = "Text::with_color" =>
             /\ run'.text = run.text
             /\ run'.scale = run.scale
             /\ run'.font_id = run.font_id
             /\ run'.extra.outline_color = run.extra.outline_color
             /\ run'.extra.z = run.extra.z
       /\ op' = "Text::with_outline_color" =>
             /\ run'.text = run.text
             /\ run'.scale = run.scale
             /\ run'.font_id = run.font_id
             /\ run'.extra.color = run.extra.color
             /\ run'.extra.z = run.extra.z
       /\ op' = "Text::with_z" =>
             /\ run'.text = run.text
             /\ run'.scale = run.scale
             /\ run'.font_id = run.font_id
             /\ run'.extra.color = run.extra.color
             /\ run'.extra.outline_color = run.extra.outline_color
       /\ op' \in {"with_screen_position", "with_bounds", "with_layout",
                   "add_text", "with_text"} => run' = run
       /\ op' \in {"Text::with_text", "Text::with_scale",
                   "Text::with_font_id", "Text::with_extra",
                   "Text::with_color", "Text::with_outline_color",
                   "Text::with_z"} =>
             section' = section
      ]_vars

C7_Witness ==
    /\ op = "with_bounds"
    /\ section.bounds = <<"2.0", "1.0">>
    /\ section.screen_position = <<"NaN", "1.0">>
    /\ section.layout = "SingleLine"
    /\ Len(section.text) = 2

\* C8 as stated: Section::new() is (0, 0), (+inf, +inf), the default layout
\* and no runs; two Sections with bounds (+inf, +inf) and otherwise
\* identical fields compare equal and feed the same geometry stream.
C8_NewAndUnboundedEqual ==
    /\ op = "new" =>
          section = [screen_position |-> <<"0.0", "0.0">>,
                     bounds |-> <<"inf", "inf">>,
                     layout |-> LayoutDefault,
                     text |-> <<>>]
    /\ op = "hash_geometry" /\ section.bounds = <<"inf", "inf">> =>
          LET B == Section_with_bounds(Section_clone(section),
                                       <<"inf", "inf">>)
          IN  /\ SectionEq(section, B)
              /\ hash_geometry(Parts(B), state0) = state

\* C8, amended: Section::new() is (0, 0), (+inf, +inf), the default layout
\* and no runs; two Sections with bounds (+inf, +inf) and otherwise
\* identical fields feed the same geometry stream, and compare equal
\* exactly when none of their other f32 fields is a NaN.
C8_NewAndUnboundedEqualUnlessNaN ==
    /\ op = "new" =>
          section = [screen_position |-> <<"0.0", "0.0">>,
                     bounds |-> <<"inf", "inf">>,
                     layout |-> LayoutDefault,
                     text |-> <<>>]
    /\ op = "hash_geometry" /\ section.bounds = <<"inf", "inf">> =>
          LET B == Section_with_bounds(Section_clone(section),
                                       <<"inf", "inf">>)
          IN  /\ SectionEq(section, B) <=> ~HasNaN(section)
              /\ hash_geometry(Parts(B), state0) = state

C8_Witness ==
    /\ op = "hash_geometry"
    /\ section.bounds = <<"inf", "inf">>
    /\ ~HasNaN(section)
    /\ Len(section.text) = 1
    /\ section.screen_position # <<"0.0", "0.0">>

\* C9: the runs of the Section are the list given to the latest
\* Section::with_text (none: the empty list) followed by the arguments of
\* the add_text calls made since, in call order.
C9_RunsAreGivenThenAdded == section.text = given \o added

C9_Witness ==
    /\ op = "with_layout"
    /\ Len(given) = 1
    /\ Len(added) = 1
    /\ added[1] # given[1]
    /\ section.text = <<given[1], added[1]>>

\* C10: Sections that differ only in layout feed the same geometry,
\* text-without-extra and extra streams, and a different full hash.
C10_LayoutOnlyInFullHash ==
    \A B \in LayoutVariants(section) :
        /\ op = "hash_geometry" =>
              hash_geometry(Parts(B), state0) = state
        /\ op = "hash_text_no_extra" =>
              hash_text_no_extra(Parts(B), state0) = state
        /\ op = "hash_extra" =>
              hash_extra(Parts(B), state0) = state
        /\ op = "hash" => SectionHash(B, state0) # state

C10_Witness ==
    /\ op = "hash"
    /\ section.layout = "SingleLine"
    /\ Len(section.text) = 1
    /\ state0 = <<>>

====
